---- MODULE Spec2Model ----
(***************************************************************************)
(* TroikaText (src/src/vue-gl-troika-text.ts): a Vue component that        *)
(* mirrors 31 declared props onto one troika-three-text Text object,       *)
(* calls sync() after layout-affecting changes, emits the host's           *)
(* vglObject3d signal after the others, and disposes the Text when the     *)
(* component is destroyed.                                                 *)
(*                                                                         *)
(* JavaScript values are tagged records:                                   *)
(*   null            [k |-> "null"]                                        *)
(*   boolean         [k |-> "bool", b |-> TRUE]                            *)
(*   number          [k |-> "num", n |-> 15, d |-> 10]    (n/d; 1/0 is     *)
(*                   Infinity and 0/0 is NaN, as in IEEE arithmetic)       *)
(*   string          [k |-> "str", s |-> <<"0", ",", "1">>]                *)
(*   THREE.Color     [k |-> "color", hex |-> 255]                          *)
(*   array           [k |-> "arr", a |-> <<v1, v2>>]                       *)
(* and an expression that throws evaluates to [k |-> "throw"].             *)
(***************************************************************************)
EXTENDS Integers, Sequences, FiniteSets, TLC

VARIABLES
  nodes,     \* the component instances the application mounts
  phase,     \* phase[i]: "Uninitialized", "Live" or "Destroyed"
  props,     \* props[i][a]: the component's current value of prop a
  texts,     \* texts[i]: the Text objects component i has constructed
  instRef,   \* instRef[i]: the cached value of computed `inst` (index into
             \* texts[i]); 0 while the computed has not been evaluated
  emits,     \* emits[i]: calls of this.vglObject3d.emit() so far
  threw,     \* threw[i]: a handler of component i has thrown
  changes,   \* prop changes delivered so far, over all components
  last,      \* the handler that ran in the last step, with its statements
  arg,       \* a value handed to the helpers of a prop, with the prop's name
  out        \* what the prop's validator and parser have returned for arg

vars ==
  <<nodes, phase, props, texts, instRef, emits, threw, changes, last, arg, out>>

----------------------------------------------------------------------------
(* Bounds *)

\* Prop changes the parent makes, over all components.
MaxChanges == 2

\* Characters of a string handed to a validator or a parser.
MaxChars == 3

\* Elements of an array handed to a validator or a parser.
MaxElems == 2

----------------------------------------------------------------------------
(* JavaScript values *)

Null == [k |-> "null"]
Bool(b) == [k |-> "bool", b |-> b]
Frac(n, d) == [k |-> "num", n |-> n, d |-> d]
Num(n) == Frac(n, 1)
Infinity == Frac(1, 0)
NaN == Frac(0, 0)
Str(s) == [k |-> "str", s |-> s]
ColorObj(hex) == [k |-> "color", hex |-> hex]
Arr(a) == [k |-> "arr", a |-> a]
\* The outcome of an expression that throws a TypeError.
TypeError == [k |-> "throw"]

typeof(v) ==
  CASE v.k = "num" -> "number"
    [] v.k = "str" -> "string"
    [] v.k = "bool" -> "boolean"
    [] OTHER -> "object"

Array_isArray(v) == v.k = "arr"

Number_isNaN(v) == v.k = "num" /\ v.n = 0 /\ v.d = 0

\* value.isColor: set on THREE.Color objects, undefined (falsy) elsewhere.
isColor(v) == v.k = "color"

----------------------------------------------------------------------------
(* String and number primitives of the language *)

Digits == <<"0", "1", "2", "3", "4", "5", "6", "7", "8", "9">>

IsDigit(c) == \E j \in 1..Len(Digits) : Digits[j] = c

DigitValue(c) == (CHOOSE j \in 1..Len(Digits) : Digits[j] = c) - 1

\* StrWhiteSpace as far as the strings of the model hold it.
IsWhiteSpace(c) == c = " "

RECURSIVE SkipWhiteSpace(_)
SkipWhiteSpace(s) ==
  IF s # <<>> /\ IsWhiteSpace(Head(s)) THEN SkipWhiteSpace(Tail(s)) ELSE s

\* The longest prefix of s made of decimal digits.
RECURSIVE TakeDigits(_)
TakeDigits(s) ==
  IF s # <<>> /\ IsDigit(Head(s)) THEN <<Head(s)>> \o TakeDigits(Tail(s)) ELSE <<>>

RECURSIVE DigitsValue(_)
DigitsValue(ds) ==
  IF ds = <<>> THEN 0
  ELSE 10 * DigitsValue(SubSeq(ds, 1, Len(ds) - 1)) + DigitValue(ds[Len(ds)])

RECURSIVE Pow10(_)
Pow10(e) == IF e = 0 THEN 1 ELSE 10 * Pow10(e - 1)

\* One number, one representation: 1.50 and 1.5 are the same value.
RECURSIVE Normalise(_, _)
Normalise(n, d) ==
  IF d > 1 /\ n % 10 = 0 THEN Normalise(n \div 10, d \div 10) ELSE Frac(n, d)

\* parseFloat of a string (ECMAScript StrDecimalLiteral prefix): leading
\* white space is skipped, then an optional sign, digits, and an optional
\* fraction; what follows is ignored; no digit at all gives NaN.  The
\* strings of the model hold no exponent and no "Infinity" literal.
ParseFloatChars(s) ==
  LET t == SkipWhiteSpace(s)
      signed == t # <<>> /\ Head(t) \in {"-", "+"}
      sign == IF t # <<>> /\ Head(t) = "-" THEN -1 ELSE 1
      u == IF signed THEN Tail(t) ELSE t
      int == TakeDigits(u)
      rest == SubSeq(u, Len(int) + 1, Len(u))
      frac == IF rest # <<>> /\ Head(rest) = "." THEN TakeDigits(Tail(rest)) ELSE <<>>
  IN  IF Len(int) + Len(frac) = 0 THEN NaN
      ELSE Normalise(sign * (DigitsValue(int) * Pow10(Len(frac)) + DigitsValue(frac)),
                     Pow10(Len(frac)))

\* parseFloat(value): the argument is converted to a string first.  A number
\* converts and parses back to itself; true, null and objects give NaN; an
\* array converts to its elements joined by ",", so its first element decides.
RECURSIVE parseFloat(_)
parseFloat(v) ==
  CASE v.k = "num" -> v
    [] v.k = "str" -> ParseFloatChars(v.s)
    [] v.k = "arr" -> IF v.a = <<>> THEN NaN ELSE parseFloat(v.a[1])
    [] OTHER -> NaN

\* String.prototype.split(","): the pieces between the commas, as strings;
\* the empty string splits into one empty piece.
RECURSIVE split(_)
split(s) ==
  LET commas == {j \in 1..Len(s) : s[j] = ","}
  IN  IF commas = {} THEN <<Str(s)>>
      ELSE LET j == CHOOSE c \in commas : \A c2 \in commas : c <= c2
           IN  <<Str(SubSeq(s, 1, j - 1))>> \o split(SubSeq(s, j + 1, Len(s)))

----------------------------------------------------------------------------
(* Helpers of the module, lines 7-31.  A function passed as an argument  *)
(* is passed by its name and applied by Call.                            *)

\* validateFloatArray with `some` in the place of `every`.
validateFloatArray_some(array) ==
  LET items == IF Array_isArray(array) THEN array.a ELSE split(array.s)
  IN  \E j \in 1..Len(items) : ~Number_isNaN(parseFloat(items[j]))

validateFloatArray(array) ==
  LET items == IF Array_isArray(array) THEN array.a ELSE split(array.s)
  IN  \A j \in 1..Len(items) : ~Number_isNaN(parseFloat(items[j]))

\* validateColor without the test of isColor.
validateColor_noObjects(color) ==
  \/ typeof(color) = "number"
  \/ typeof(color) = "string"

validateColor(color) ==
  \/ isColor(color)
  \/ typeof(color) = "number"
  \/ typeof(color) = "string"

\* array.split is a function on strings only.
parseFloatArray(array) ==
  IF Array_isArray(array)
  THEN Arr([j \in 1..Len(array.a) |->
              IF typeof(array.a[j]) = "number" THEN array.a[j] ELSE parseFloat(array.a[j])])
  ELSE IF typeof(array) = "string"
       THEN LET pieces == split(array.s)
            IN  Arr([j \in 1..Len(pieces) |-> parseFloat(pieces[j])])
       ELSE TypeError

Call(fn, value) ==
  CASE fn = "parseFloatArray" -> parseFloatArray(value)
    [] fn = "validateFloatArray" -> validateFloatArray(value)
    [] fn = "validateColor" -> validateColor(value)

\* nullableParser with null turned into the empty string and parsed.
nullableParser_coercing(parser, value) ==
  Call(parser, IF value.k = "null" THEN Str(<<>>) ELSE value)

\* value == null ? null : parser(value)
nullableParser(parser, value) ==
  IF value.k = "null" THEN Null ELSE Call(parser, value)

\* value == null ? true : validator(value)
nullableValidator(validator, value) ==
  IF value.k = "null" THEN TRUE ELSE Call(validator, value)

----------------------------------------------------------------------------
(* The declared props, lines 352-384 *)

\* The props in the order the inst handler copies them (lines 525-555).
AttrOrder ==
  << "text", "anchorX", "anchorY", "curveRadius",
     "direction", "font", "fontSize", "letterSpacing",
     "lineHeight", "maxWidth", "overflowWrap", "textAlign",
     "textIndent", "whiteSpace", "color", "colorRanges",
     "outlineWidth", "outlineColor", "outlineOpacity", "outlineBlur",
     "outlineOffsetX", "outlineOffsetY", "strokeWidth", "strokeColor",
     "strokeOpacity", "fillOpacity", "depthOffset", "clipRect",
     "orientation", "glyphGeometryDetail", "sdfGlyphSize" >>

Attrs == {AttrOrder[j] : j \in 1..Len(AttrOrder)}

\* Each prop's `default:`.
PropDefaults ==
  [ text |-> Str(<<>>),
    anchorX |-> Num(0),
    anchorY |-> Num(0),
    curveRadius |-> Num(0),
    direction |-> Str(<<"a", "u", "t", "o">>),
    font |-> Null,
    fontSize |-> Frac(1, 10),
    letterSpacing |-> Num(0),
    lineHeight |-> Str(<<"n", "o", "r", "m", "a", "l">>),
    maxWidth |-> Infinity,
    overflowWrap |-> Str(<<"n", "o", "r", "m", "a", "l">>),
    textAlign |-> Str(<<"l", "e", "f", "t">>),
    textIndent |-> Num(0),
    whiteSpace |-> Str(<<"n", "o", "r", "m", "a", "l">>),
    color |-> Null,
    colorRanges |-> Null,
    outlineWidth |-> Num(0),
    outlineColor |-> Num(0),
    outlineOpacity |-> Num(1),
    outlineBlur |-> Num(0),
    outlineOffsetX |-> Num(0),
    outlineOffsetY |-> Num(0),
    strokeWidth |-> Num(0),
    strokeColor |-> Num(8421504),
    strokeOpacity |-> Num(1),
    fillOpacity |-> Num(1),
    depthOffset |-> Num(0),
    clipRect |-> Null,
    orientation |-> Str(<<"+", "x", "+", "y">>),
    glyphGeometryDetail |-> Num(1),
    sdfGlyphSize |-> Null ]

\* The fields of a Text as its constructor leaves them (the @default of
\* each field in the library's declaration).
TextDefaults ==
  [ text |-> Str(<<>>),
    anchorX |-> Num(0),
    anchorY |-> Num(0),
    curveRadius |-> Num(0),
    direction |-> Str(<<"a", "u", "t", "o">>),
    font |-> Null,
    fontSize |-> Frac(1, 10),
    letterSpacing |-> Num(0),
    lineHeight |-> Str(<<"n", "o", "r", "m", "a", "l">>),
    maxWidth |-> Infinity,
    overflowWrap |-> Str(<<"n", "o", "r", "m", "a", "l">>),
    textAlign |-> Str(<<"l", "e", "f", "t">>),
    textIndent |-> Num(0),
    whiteSpace |-> Str(<<"n", "o", "r", "m", "a", "l">>),
    color |-> Null,
    colorRanges |-> Null,
    outlineWidth |-> Num(0),
    outlineColor |-> Num(0),
    outlineOpacity |-> Num(1),
    outlineBlur |-> Num(0),
    outlineOffsetX |-> Num(0),
    outlineOffsetY |-> Num(0),
    strokeWidth |-> Num(0),
    strokeColor |-> Num(8421504),
    strokeOpacity |-> Num(1),
    fillOpacity |-> Num(1),
    depthOffset |-> Num(0),
    clipRect |-> Null,
    orientation |-> Str(<<"+", "x", "+", "y">>),
    glyphGeometryDetail |-> Num(1),
    sdfGlyphSize |-> Null ]

\* The props declared with validator: nullableValidator(validateColor).
ColorAttrs == {"color", "outlineColor", "strokeColor"}

----------------------------------------------------------------------------
(* Values the parent binds to the props *)

\* Colors: null, numbers, strings, a THREE.Color, and shapes the validator
\* does not recognise (a boolean, an array).
ColorValues ==
  { Null, Num(0), Str(<<"r", "e", "d">>), ColorObj(255),
    Bool(TRUE), Arr(<<Num(1), Num(0), Num(0)>>) }

\* Clip rectangles: null, comma-separated strings and arrays, with and
\* without pieces that parse to a number.
ClipRectValues ==
  { Null,
    Str(<<"0", ",", "0", ",", "1", ",", "1">>),
    Arr(<<Str(<<"-", "1", ".", "5">>), Num(2)>>),
    Str(<<"a", ",", "b">>),
    Arr(<<Num(1), Str(<<"x">>)>>),
    Str(<<>>),
    Arr(<<>>) }

\* For every other prop, one value besides its default.
OtherValues ==
  [ text |-> Str(<<"h", "i">>),
    anchorX |-> Str(<<"c", "e", "n", "t", "e", "r">>),
    anchorY |-> Str(<<"m", "i", "d", "d", "l", "e">>),
    curveRadius |-> Num(2),
    direction |-> Str(<<"r", "t", "l">>),
    font |-> Str(<<"a", ".", "t", "t", "f">>),
    fontSize |-> Num(1),
    letterSpacing |-> Frac(5, 100),
    lineHeight |-> Frac(12, 10),
    maxWidth |-> Num(3),
    overflowWrap |-> Str(<<"b", "r", "e", "a", "k", "-", "w", "o", "r", "d">>),
    textAlign |-> Str(<<"c", "e", "n", "t", "e", "r">>),
    textIndent |-> Num(1),
    whiteSpace |-> Str(<<"n", "o", "w", "r", "a", "p">>),
    color |-> Str(<<"r", "e", "d">>),
    colorRanges |-> Arr(<<Num(255), Str(<<"r", "e", "d">>)>>),
    outlineWidth |-> Str(<<"5", "%">>),
    outlineColor |-> ColorObj(255),
    outlineOpacity |-> Frac(5, 10),
    outlineBlur |-> Str(<<"9", "%">>),
    outlineOffsetX |-> Num(1),
    outlineOffsetY |-> Num(-1),
    strokeWidth |-> Frac(1, 100),
    strokeColor |-> Num(0),
    strokeOpacity |-> Frac(5, 10),
    fillOpacity |-> Num(0),
    depthOffset |-> Num(-1),
    clipRect |-> Str(<<"0", ",", "0", ",", "1", ",", "1">>),
    orientation |-> Str(<<"+", "x", "-", "z">>),
    glyphGeometryDetail |-> Num(4),
    sdfGlyphSize |-> Num(128) ]

PropValues(a) ==
  CASE a \in ColorAttrs -> ColorValues
    [] a = "clipRect" -> ClipRectValues
    [] OTHER -> {PropDefaults[a], OtherValues[a]}

\* The props a component is created with: every prop left at its default,
\* or every prop bound.
InitProps == {PropDefaults, OtherValues}

----------------------------------------------------------------------------
(* Statements of the handlers.  A handler's body is the sequence of its   *)
(* statements; Exec runs one statement and RunBody runs them in order.     *)

\* this.inst.<attr> = val
Set(attr, val) == [op |-> "set", attr |-> attr, val |-> val]
\* this.inst.sync()
Sync == [op |-> "sync", attr |-> "", val |-> Null]
\* this.vglObject3d.emit()
Emit == [op |-> "emit", attr |-> "", val |-> Null]
\* this.inst.dispose()
Dispose == [op |-> "dispose", attr |-> "", val |-> Null]

\* new Text(): the fields at their defaults, no listener, nothing requested.
new_Text ==
  [fields |-> TextDefaults, listeners |-> 0, syncCalls |-> 0, inflight |-> 0,
   disposeCalls |-> 0]

\* addEventListener with the listener registered twice.
addEventListener_twice(mesh) == [mesh EXCEPT !.listeners = @ + 2]

\* mesh.addEventListener('synccomplete', () => { this.vglObject3d.emit() })
addEventListener(mesh) == [mesh EXCEPT !.listeners = @ + 1]

\* The getter without the listener.
inst_getter_noListener(c) == [c EXCEPT !.texts = Append(@, new_Text)]

\* The getter of the computed `inst`: a Text is constructed, the listener
\* registered, the Text returned.  c is the component: its Text objects,
\* the cached value of `inst`, the count of emits, and whether the running
\* handler has thrown.
inst_getter(c) == [c EXCEPT !.texts = Append(@, addEventListener(new_Text))]

\* this.inst with the getter run on every access (`inst` as a method).
this_inst_uncached(c) ==
  LET d == inst_getter(c) IN [d EXCEPT !.ref = Len(d.texts)]

\* this.inst: `inst` is declared under `computed`, so the getter runs on the
\* first access and its result is cached.
this_inst(c) ==
  IF c.ref # 0 THEN c
  ELSE LET d == inst_getter(c) IN [d EXCEPT !.ref = Len(d.texts)]

\* One statement.  A statement whose right-hand side throws assigns nothing
\* and leaves the handler.
Exec(c, o) ==
  CASE o.op = "set" ->
         LET d == this_inst(c)
         IN  IF o.val.k = "throw" THEN [d EXCEPT !.threw = TRUE]
             ELSE [d EXCEPT !.texts[d.ref].fields[o.attr] = o.val]
    [] o.op = "sync" ->
         LET d == this_inst(c)
         IN  [d EXCEPT !.texts[d.ref].syncCalls = @ + 1, !.texts[d.ref].inflight = @ + 1]
    [] o.op = "dispose" ->
         LET d == this_inst(c) IN [d EXCEPT !.texts[d.ref].disposeCalls = @ + 1]
    [] o.op = "emit" -> [c EXCEPT !.emits = @ + 1]

\* The statements in order, up to the first that throws.
RECURSIVE RunBody(_, _)
RunBody(c, body) ==
  IF body = <<>> \/ c.threw THEN c
  ELSE RunBody(Exec(c, Head(body)), Tail(body))

Component(i) ==
  [texts |-> texts[i], ref |-> instRef[i], emits |-> emits[i], threw |-> FALSE]

\* Run with the emits made on every component.
Run_sharedEmit(i, c, handler, attr, body) ==
  LET d == RunBody(c, body)
  IN  /\ texts' = [texts EXCEPT ![i] = d.texts]
      /\ instRef' = [instRef EXCEPT ![i] = d.ref]
      /\ emits' = [j \in nodes |-> emits[j] + (d.emits - c.emits)]
      /\ threw' = [threw EXCEPT ![i] = @ \/ d.threw]
      /\ last' = [node |-> i, handler |-> handler, attr |-> attr, body |-> body]

\* Handler `handler` of component i runs `body` on the component as c holds it.
Run(i, c, handler, attr, body) ==
  LET d == RunBody(c, body)
  IN  /\ texts' = [texts EXCEPT ![i] = d.texts]
      /\ instRef' = [instRef EXCEPT ![i] = d.ref]
      /\ emits' = [emits EXCEPT ![i] = d.emits]
      /\ threw' = [threw EXCEPT ![i] = @ \/ d.threw]
      /\ last' = [node |-> i, handler |-> handler, attr |-> attr, body |-> body]

----------------------------------------------------------------------------
(* The watchers, lines 396-520 *)

\* The parent binds `value` to prop `attr` of the live component i; the prop
\* changes and its watcher runs `body`.  The props' `type` and `validator`
\* are not consulted by any handler: the framework reports a failing check
\* (a console warning in development builds) and assigns the value all the
\* same, so the watcher runs for every value the parent binds.
Watcher(i, attr, value, body) ==
  /\ phase[i] = "Live"
  /\ changes < MaxChanges
  /\ value # props[i][attr]
  /\ props' = [props EXCEPT ![i][attr] = value]
  /\ changes' = changes + 1
  /\ Run(i, Component(i), "watch", attr, body)
  /\ UNCHANGED <<nodes, phase, arg, out>>

\* watch_text calling sync() a second time.
watch_text_twice(i) ==
  \E text \in PropValues("text") :
    Watcher(i, "text", text, <<Set("text", text), Sync, Sync>>)

watch_text(i) ==
  \E text \in PropValues("text") :
    Watcher(i, "text", text, <<Set("text", text), Sync>>)

\* watch.anchorX with the sync() before the assignment.
watch_anchorX_signalFirst(i) ==
  \E anchorX \in PropValues("anchorX") :
    Watcher(i, "anchorX", anchorX, <<Sync, Set("anchorX", anchorX)>>)

watch_anchorX(i) ==
  \E anchorX \in PropValues("anchorX") :
    Watcher(i, "anchorX", anchorX, <<Set("anchorX", anchorX), Sync>>)

watch_anchorY(i) ==
  \E anchorY \in PropValues("anchorY") :
    Watcher(i, "anchorY", anchorY, <<Set("anchorY", anchorY), Sync>>)

watch_curveRadius(i) ==
  \E curveRadius \in PropValues("curveRadius") :
    Watcher(i, "curveRadius", curveRadius, <<Set("curveRadius", curveRadius), Emit>>)

watch_direction(i) ==
  \E direction \in PropValues("direction") :
    Watcher(i, "direction", direction, <<Set("direction", direction), Sync>>)

\* watch_font emitting besides calling sync().
watch_font_both(i) ==
  \E font \in PropValues("font") :
    Watcher(i, "font", font, <<Set("font", font), Sync, Emit>>)

watch_font(i) ==
  \E font \in PropValues("font") :
    Watcher(i, "font", font, <<Set("font", font), Sync>>)

watch_fontSize(i) ==
  \E fontSize \in PropValues("fontSize") :
    Watcher(i, "fontSize", fontSize, <<Set("fontSize", fontSize), Sync>>)

watch_letterSpacing(i) ==
  \E letterSpacing \in PropValues("letterSpacing") :
    Watcher(i, "letterSpacing", letterSpacing, <<Set("letterSpacing", letterSpacing), Sync>>)

watch_lineHeight(i) ==
  \E lineHeight \in PropValues("lineHeight") :
    Watcher(i, "lineHeight", lineHeight, <<Set("lineHeight", lineHeight), Sync>>)

watch_maxWidth(i) ==
  \E maxWidth \in PropValues("maxWidth") :
    Watcher(i, "maxWidth", maxWidth, <<Set("maxWidth", maxWidth), Sync>>)

watch_overflowWrap(i) ==
  \E overflowWrap \in PropValues("overflowWrap") :
    Watcher(i, "overflowWrap", overflowWrap, <<Set("overflowWrap", overflowWrap), Sync>>)

watch_textAlign(i) ==
  \E textAlign \in PropValues("textAlign") :
    Watcher(i, "textAlign", textAlign, <<Set("textAlign", textAlign), Sync>>)

watch_textIndent(i) ==
  \E textIndent \in PropValues("textIndent") :
    Watcher(i, "textIndent", textIndent, <<Set("textIndent", textIndent), Sync>>)

watch_whiteSpace(i) ==
  \E whiteSpace \in PropValues("whiteSpace") :
    Watcher(i, "whiteSpace", whiteSpace, <<Set("whiteSpace", whiteSpace), Sync>>)

watch_color(i) ==
  \E color \in PropValues("color") :
    Watcher(i, "color", color, <<Set("color", color), Emit>>)

watch_colorRanges(i) ==
  \E colorRanges \in PropValues("colorRanges") :
    Watcher(i, "colorRanges", colorRanges, <<Set("colorRanges", colorRanges), Sync>>)

watch_outlineWidth(i) ==
  \E outlineWidth \in PropValues("outlineWidth") :
    Watcher(i, "outlineWidth", outlineWidth, <<Set("outlineWidth", outlineWidth), Emit>>)

watch_outlineColor(i) ==
  \E outlineColor \in PropValues("outlineColor") :
    Watcher(i, "outlineColor", outlineColor, <<Set("outlineColor", outlineColor), Emit>>)

watch_outlineOpacity(i) ==
  \E outlineOpacity \in PropValues("outlineOpacity") :
    Watcher(i, "outlineOpacity", outlineOpacity, <<Set("outlineOpacity", outlineOpacity), Emit>>)

watch_outlineBlur(i) ==
  \E outlineBlur \in PropValues("outlineBlur") :
    Watcher(i, "outlineBlur", outlineBlur, <<Set("outlineBlur", outlineBlur), Emit>>)

\* watch.outlineOffsetX assigning the field of outlineOffsetY.
watch_outlineOffsetX_wrongField(i) ==
  \E outlineOffsetX \in PropValues("outlineOffsetX") :
    Watcher(i, "outlineOffsetX", outlineOffsetX,
            <<Set("outlineOffsetY", outlineOffsetX), Emit>>)

watch_outlineOffsetX(i) ==
  \E outlineOffsetX \in PropValues("outlineOffsetX") :
    Watcher(i, "outlineOffsetX", outlineOffsetX, <<Set("outlineOffsetX", outlineOffsetX), Emit>>)

watch_outlineOffsetY(i) ==
  \E outlineOffsetY \in PropValues("outlineOffsetY") :
    Watcher(i, "outlineOffsetY", outlineOffsetY, <<Set("outlineOffsetY", outlineOffsetY), Emit>>)

watch_strokeWidth(i) ==
  \E strokeWidth \in PropValues("strokeWidth") :
    Watcher(i, "strokeWidth", strokeWidth, <<Set("strokeWidth", strokeWidth), Emit>>)

\* watch_strokeColor calling sync() where it emits.
watch_strokeColor_resync(i) ==
  \E strokeColor \in PropValues("strokeColor") :
    Watcher(i, "strokeColor", strokeColor, <<Set("strokeColor", strokeColor), Sync>>)

watch_strokeColor(i) ==
  \E strokeColor \in PropValues("strokeColor") :
    Watcher(i, "strokeColor", strokeColor, <<Set("strokeColor", strokeColor), Emit>>)

watch_strokeOpacity(i) ==
  \E strokeOpacity \in PropValues("strokeOpacity") :
    Watcher(i, "strokeOpacity", strokeOpacity, <<Set("strokeOpacity", strokeOpacity), Emit>>)

watch_fillOpacity(i) ==
  \E fillOpacity \in PropValues("fillOpacity") :
    Watcher(i, "fillOpacity", fillOpacity, <<Set("fillOpacity", fillOpacity), Emit>>)

watch_depthOffset(i) ==
  \E depthOffset \in PropValues("depthOffset") :
    Watcher(i, "depthOffset", depthOffset, <<Set("depthOffset", depthOffset), Emit>>)

\* watch_clipRect with the parser left out.
watch_clipRect_unparsed(i) ==
  \E clipRect \in PropValues("clipRect") :
    Watcher(i, "clipRect", clipRect, <<Set("clipRect", clipRect), Emit>>)

watch_clipRect(i) ==
  \E clipRect \in PropValues("clipRect") :
    Watcher(i, "clipRect", clipRect, <<Set("clipRect", nullableParser("parseFloatArray", clipRect)), Emit>>)

watch_orientation(i) ==
  \E orientation \in PropValues("orientation") :
    Watcher(i, "orientation", orientation, <<Set("orientation", orientation), Emit>>)

watch_glyphGeometryDetail(i) ==
  \E glyphGeometryDetail \in PropValues("glyphGeometryDetail") :
    Watcher(i, "glyphGeometryDetail", glyphGeometryDetail, <<Set("glyphGeometryDetail", glyphGeometryDetail), Emit>>)

\* watch.sdfGlyphSize emitting as the presentation-only watchers do.
watch_sdfGlyphSize_emits(i) ==
  \E sdfGlyphSize \in PropValues("sdfGlyphSize") :
    Watcher(i, "sdfGlyphSize", sdfGlyphSize,
            <<Set("sdfGlyphSize", sdfGlyphSize), Emit>>)

watch_sdfGlyphSize(i) ==
  \E sdfGlyphSize \in PropValues("sdfGlyphSize") :
    Watcher(i, "sdfGlyphSize", sdfGlyphSize, <<Set("sdfGlyphSize", sdfGlyphSize), Sync>>)

----------------------------------------------------------------------------
(* The watcher of `inst`, immediate: true (lines 522-558) *)

\* Lines 525-555: every prop is assigned to its field.
inst_handler_assignments(this) ==
  << Set("text", this.text),
     Set("anchorX", this.anchorX),
     Set("anchorY", this.anchorY),
     Set("curveRadius", this.curveRadius),
     Set("direction", this.direction),
     Set("font", this.font),
     Set("fontSize", this.fontSize),
     Set("letterSpacing", this.letterSpacing),
     Set("lineHeight", this.lineHeight),
     Set("maxWidth", this.maxWidth),
     Set("overflowWrap", this.overflowWrap),
     Set("textAlign", this.textAlign),
     Set("textIndent", this.textIndent),
     Set("whiteSpace", this.whiteSpace),
     Set("color", this.color),
     Set("colorRanges", this.colorRanges),
     Set("outlineWidth", this.outlineWidth),
     Set("outlineColor", this.outlineColor),
     Set("outlineOpacity", this.outlineOpacity),
     Set("outlineBlur", this.outlineBlur),
     Set("outlineOffsetX", this.outlineOffsetX),
     Set("outlineOffsetY", this.outlineOffsetY),
     Set("strokeWidth", this.strokeWidth),
     Set("strokeColor", this.strokeColor),
     Set("strokeOpacity", this.strokeOpacity),
     Set("fillOpacity", this.fillOpacity),
     Set("depthOffset", this.depthOffset),
     Set("clipRect", nullableParser("parseFloatArray", this.clipRect)),
     Set("orientation", this.orientation),
     Set("glyphGeometryDetail", this.glyphGeometryDetail),
     Set("sdfGlyphSize", this.sdfGlyphSize) >>

\* inst_handler with sync() called before the assignments.
inst_handler_syncFirst(this) == <<Sync>> \o inst_handler_assignments(this)

\* handler(inst) without its inst.sync().
inst_handler_noSync(this) == inst_handler_assignments(this)

\* handler(inst): the assignments, then inst.sync() (line 556).
inst_handler(this) == inst_handler_assignments(this) \o <<Sync>>

\* The component is created: the watcher of `inst` reads this.inst, which
\* runs the getter, and its handler runs at once.
Create(i) ==
  /\ phase[i] = "Uninitialized"
  /\ phase' = [phase EXCEPT ![i] = "Live"]
  /\ Run(i, this_inst(Component(i)), "inst", "", inst_handler(props[i]))
  /\ UNCHANGED <<nodes, props, changes, arg, out>>

----------------------------------------------------------------------------
(* The destroyed hook, lines 561-565 *)

\* destroyed with the test inverted: the Text is never disposed.
destroyed_leaks(i) ==
  /\ phase[i] = "Live"
  /\ phase' = [phase EXCEPT ![i] = "Destroyed"]
  /\ LET c == this_inst(Component(i))
     IN  Run(i, c, "destroyed", "", IF c.ref = 0 THEN <<Dispose>> ELSE <<>>)
  /\ UNCHANGED <<nodes, props, changes, arg, out>>

\* destroyed removing the listener as well as disposing.
destroyed_unlistens(i) ==
  /\ phase[i] = "Live"
  /\ phase' = [phase EXCEPT ![i] = "Destroyed"]
  /\ LET c == this_inst(Component(i))
         d == [c EXCEPT !.texts[c.ref].listeners = 0]
     IN  Run(i, d, "destroyed", "", IF c.ref # 0 THEN <<Dispose>> ELSE <<>>)
  /\ UNCHANGED <<nodes, props, changes, arg, out>>

\* if (this.inst !== undefined) { this.inst.dispose() }
destroyed(i) ==
  /\ phase[i] = "Live"
  /\ phase' = [phase EXCEPT ![i] = "Destroyed"]
  /\ LET c == this_inst(Component(i))
     IN  Run(i, c, "destroyed", "", IF c.ref # 0 THEN <<Dispose>> ELSE <<>>)
  /\ UNCHANGED <<nodes, props, changes, arg, out>>

----------------------------------------------------------------------------
(* The library completes requested syncs (Text.sync, 'synccomplete') *)

\* Text r of component i has n requested syncs finish, at a time of the
\* library's choosing, and dispatches 'synccomplete' once: every registered
\* listener (lines 389-391) emits.
SyncComplete(i) ==
  \E r \in 1..Len(texts[i]) :
    \E n \in 1..texts[i][r].inflight :
      LET c == [Component(i) EXCEPT !.texts[r].inflight = @ - n]
      IN  /\ Run(i, c, "synccomplete", "", [j \in 1..texts[i][r].listeners |-> Emit])
          /\ UNCHANGED <<nodes, phase, props, changes, arg, out>>

----------------------------------------------------------------------------
(* The specification *)

NoHandler == [node |-> 0, handler |-> "none", attr |-> "", body |-> <<>>]

\* No helper has been handed a value; a helper has not been called.
NoArgument == [prop |-> "none", value |-> Null]
NotCalled == [k |-> "none"]
NoOutcome == [valid |-> NotCalled, parsed |-> NotCalled]

\* The components an application may mount.
Components == {1, 2}

Init ==
  /\ nodes = {1}
  /\ phase = [i \in nodes |-> "Uninitialized"]
  /\ props \in [nodes -> InitProps]
  /\ texts = [i \in nodes |-> <<>>]
  /\ instRef = [i \in nodes |-> 0]
  /\ emits = [i \in nodes |-> 0]
  /\ threw = [i \in nodes |-> FALSE]
  /\ changes = 0
  /\ last = NoHandler
  /\ arg = NoArgument
  /\ out = NoOutcome

Next ==
  \/ \E i \in nodes : Create(i)
  \/ \E i \in nodes : watch_text(i)
  \/ \E i \in nodes : watch_anchorX(i)
  \/ \E i \in nodes : watch_anchorY(i)
  \/ \E i \in nodes : watch_curveRadius(i)
  \/ \E i \in nodes : watch_direction(i)
  \/ \E i \in nodes : watch_font(i)
  \/ \E i \in nodes : watch_fontSize(i)
  \/ \E i \in nodes : watch_letterSpacing(i)
  \/ \E i \in nodes : watch_lineHeight(i)
  \/ \E i \in nodes : watch_maxWidth(i)
  \/ \E i \in nodes : watch_overflowWrap(i)
  \/ \E i \in nodes : watch_textAlign(i)
  \/ \E i \in nodes : watch_textIndent(i)
  \/ \E i \in nodes : watch_whiteSpace(i)
  \/ \E i \in nodes : watch_color(i)
  \/ \E i \in nodes : watch_colorRanges(i)
  \/ \E i \in nodes : watch_outlineWidth(i)
  \/ \E i \in nodes : watch_outlineColor(i)
  \/ \E i \in nodes : watch_outlineOpacity(i)
  \/ \E i \in nodes : watch_outlineBlur(i)
  \/ \E i \in nodes : watch_outlineOffsetX(i)
  \/ \E i \in nodes : watch_outlineOffsetY(i)
  \/ \E i \in nodes : watch_strokeWidth(i)
  \/ \E i \in nodes : watch_strokeColor(i)
  \/ \E i \in nodes : watch_strokeOpacity(i)
  \/ \E i \in nodes : watch_fillOpacity(i)
  \/ \E i \in nodes : watch_depthOffset(i)
  \/ \E i \in nodes : watch_clipRect(i)
  \/ \E i \in nodes : watch_orientation(i)
  \/ \E i \in nodes : watch_glyphGeometryDetail(i)
  \/ \E i \in nodes : watch_sdfGlyphSize(i)
  \/ \E i \in nodes : SyncComplete(i)
  \/ \E i \in nodes : destroyed(i)

Spec == Init /\ [][Next]_vars

\* Two components mounted side by side, each with the default props.
InitMulti ==
  /\ nodes = Components
  /\ phase = [i \in nodes |-> "Uninitialized"]
  /\ props = [i \in nodes |-> PropDefaults]
  /\ texts = [i \in nodes |-> <<>>]
  /\ instRef = [i \in nodes |-> 0]
  /\ emits = [i \in nodes |-> 0]
  /\ threw = [i \in nodes |-> FALSE]
  /\ changes = 0
  /\ last = NoHandler
  /\ arg = NoArgument
  /\ out = NoOutcome

SpecMulti == InitMulti /\ [][Next]_vars

----------------------------------------------------------------------------
(* The helpers on their own: validators and parser of the color props and *)
(* of clipRect, applied to the values a parent may bind                   *)

\* The strings of at most n characters of the alphabet.
RECURSIVE Strings(_, _)
Strings(alphabet, n) ==
  IF n = 0 THEN {<<>>}
  ELSE LET shorter == Strings(alphabet, n - 1)
       IN  shorter \cup {Append(s, c) : s \in shorter, c \in alphabet}

\* The arrays of at most n of the elements.
RECURSIVE Arrays(_, _)
Arrays(elements, n) ==
  IF n = 0 THEN {<<>>}
  ELSE LET shorter == Arrays(elements, n - 1)
       IN  shorter \cup {Append(a, e) : a \in shorter, e \in elements}

\* Values bound to a color prop: null, numbers, booleans, THREE.Color
\* objects, arrays, and strings ("red", "#f0f", "", "#", "fred", ...).
ColorInputs ==
  {Null, Num(0), Num(8421504), NaN, Bool(TRUE), Bool(FALSE), ColorObj(255)}
    \cup {Arr(a) : a \in Arrays({Num(1), Str(<<"r", "e", "d">>)}, MaxElems)}
    \cup {Str(s) : s \in Strings({"#", "0", "f", "r", "e", "d"}, MaxChars)}

\* Values bound to clipRect: null, strings ("1,1", "1,a", "", "-.1", ...)
\* and arrays of numbers, strings and other values.
FloatArrayInputs ==
  {Null}
    \cup {Str(s) : s \in Strings({"1", ",", "a", "-", ".", " "}, MaxChars)}
    \cup {Arr(a) : a \in Arrays({Num(1), Frac(-3, 2), NaN, Str(<<"1">>), Str(<<"a">>),
                                 Str(<<>>), Null, Bool(TRUE)}, MaxElems)}

HelperInit ==
  /\ nodes = {}
  /\ phase = <<>> /\ props = <<>> /\ texts = <<>>
  /\ instRef = <<>> /\ emits = <<>> /\ threw = <<>>
  /\ changes = 0
  /\ last = NoHandler
  /\ out = NoOutcome
  /\ arg \in [prop : {"color"}, value : ColorInputs]
               \cup [prop : {"clipRect"}, value : FloatArrayInputs]

\* validator: nullableValidator(validateColor) of a color prop, lines 367,
\* 370 and 376, applied to the value.
validator_color ==
  /\ arg.prop = "color" /\ out.valid = NotCalled
  /\ out' = [out EXCEPT !.valid = Bool(nullableValidator("validateColor", arg.value))]
  /\ UNCHANGED <<nodes, phase, props, texts, instRef, emits, threw, changes, last, arg>>

\* validator: nullableValidator(validateFloatArray) of clipRect, line 380.
validator_clipRect ==
  /\ arg.prop = "clipRect" /\ out.valid = NotCalled
  /\ out' = [out EXCEPT !.valid = Bool(nullableValidator("validateFloatArray", arg.value))]
  /\ UNCHANGED <<nodes, phase, props, texts, instRef, emits, threw, changes, last, arg>>

\* nullableParser(parseFloatArray)(clipRect), lines 506 and 552.
parse_clipRect ==
  /\ arg.prop = "clipRect" /\ out.parsed = NotCalled
  /\ out' = [out EXCEPT !.parsed = nullableParser("parseFloatArray", arg.value)]
  /\ UNCHANGED <<nodes, phase, props, texts, instRef, emits, threw, changes, last, arg>>

HelperNext == validator_color \/ validator_clipRect \/ parse_clipRect

HelperSpec == HelperInit /\ [][HelperNext]_vars

\* The library delivers the notification of a requested sync in the end.
FairSpec == Spec /\ \A i \in Components : WF_vars(i \in nodes /\ SyncComplete(i))

----------------------------------------------------------------------------
(* What the properties below speak of *)

Created(i) == phase[i] # "Uninitialized"

\* Field a of the Text component i owns.
Field(i, a) == texts[i][instRef[i]].fields[a]

RECURSIVE Total(_, _)
Total(ts, f) == IF ts = <<>> THEN 0 ELSE Head(ts)[f] + Total(Tail(ts), f)

\* Calls of sync(), syncs not yet completed and calls of dispose(), over
\* every Text component i constructed.
SyncCalls(i) == Total(texts[i], "syncCalls")
Inflight(i) == Total(texts[i], "inflight")
DisposeCalls(i) == Total(texts[i], "disposeCalls")

\* The statements of the last handler that are of kind op.
Count(body, op) == Cardinality({j \in 1..Len(body) : body[j].op = op})

\* The value a prop's field is to hold: the clip rectangle parsed to an array
\* of numbers (null stays null), any other prop's value as it is.
Coerced(a, v) ==
  IF a = "clipRect"
  THEN IF v = Null THEN Null
       ELSE IF v.k = "arr"
            THEN Arr([j \in 1..Len(v.a) |-> parseFloat(v.a[j])])
            ELSE Arr([j \in 1..Len(split(v.s)) |-> parseFloat(split(v.s)[j])])
  ELSE v

\* The classes of the attributes, as the specification lists them.
LayoutAffecting ==
  { "text", "anchorX", "anchorY", "maxWidth", "whiteSpace", "overflowWrap",
    "textAlign", "textIndent", "lineHeight", "direction", "letterSpacing",
    "fontSize", "font", "colorRanges" }

PresentationOnly ==
  { "outlineWidth", "outlineColor", "outlineOpacity", "outlineBlur",
    "outlineOffsetX", "outlineOffsetY", "strokeWidth", "strokeColor",
    "strokeOpacity", "fillOpacity", "depthOffset", "clipRect", "orientation",
    "curveRadius", "glyphGeometryDetail" }

\* Prop a of component i changes in this step.
Changed(i, a) == props'[i][a] # props[i][a]

----------------------------------------------------------------------------
(* Properties *)

\* C1: once the component is created, and after every change of a prop, each
\* field of the owned Text holds the coerced form of the prop's current value:
\* the clip rectangle parsed to numbers ("0,0,1,1" gives [0,0,1,1]), every
\* other prop's value itself.
C1_FieldsMirrorProps ==
  \A i \in nodes :
    Created(i) =>
      /\ \A a \in Attrs : Field(i, a) = Coerced(a, props[i][a])
      /\ props[i].clipRect = Str(<<"0", ",", "0", ",", "1", ",", "1">>)
           => Field(i, "clipRect") = Arr(<<Num(0), Num(0), Num(1), Num(1)>>)

\* The clip rectangle was changed to "0,0,1,1" and the field is [0,0,1,1].
C1_Witness ==
  /\ last.handler = "watch" /\ last.attr = "clipRect"
  /\ props[1].clipRect = Str(<<"0", ",", "0", ",", "1", ",", "1">>)
  /\ Field(1, "clipRect") = Arr(<<Num(0), Num(0), Num(1), Num(1)>>)

\* C2: a change of a layout-affecting prop calls sync() exactly once and
\* emits nothing in that step; an emit happens only in a step in which a
\* requested sync completes or in which a prop outside the layout-affecting
\* class changes.
C2_LayoutChangeResyncsOnce ==
  [][\A i \in nodes :
       /\ \A a \in LayoutAffecting :
            Changed(i, a) =>
              /\ SyncCalls(i)' = SyncCalls(i) + 1
              /\ Inflight(i)' = Inflight(i) + 1
              /\ emits'[i] = emits[i]
       /\ emits'[i] # emits[i] =>
            \/ Inflight(i)' < Inflight(i)
            \/ \E a \in Attrs \ LayoutAffecting : Changed(i, a)]_vars

\* Created with the defaults, the text was changed, and both the sync of the
\* creation and the sync of the change have completed, each with its emit.
C2_Witness ==
  /\ props[1] = [PropDefaults EXCEPT !.text = Str(<<"h", "i">>)]
  /\ last.handler = "synccomplete"
  /\ SyncCalls(1) = 2 /\ Inflight(1) = 0 /\ emits[1] = 2

\* C3: a change of a presentation-only prop emits in that very step and
\* calls no sync().
C3_PresentationChangeEmits ==
  [][\A i \in nodes : \A a \in PresentationOnly :
       Changed(i, a) =>
         /\ emits'[i] = emits[i] + 1
         /\ SyncCalls(i)' = SyncCalls(i)
         /\ Inflight(i)' = Inflight(i)]_vars

\* The stroke color was changed: one emit, and no sync() but the creation's.
C3_Witness ==
  /\ last.handler = "watch" /\ last.attr = "strokeColor"
  /\ emits[1] = 1 /\ SyncCalls(1) = 1

\* C4: every watcher performs exactly one signalling statement, sync() or
\* emit(), never both and never neither; the watchers of the layout-affecting
\* props call sync(), those of the presentation-only props emit, and no prop
\* is in both classes.
C4_OneSignalPerWatcher ==
  /\ LayoutAffecting \cap PresentationOnly = {}
  /\ last.handler = "watch" =>
       /\ Count(last.body, "sync") + Count(last.body, "emit") = 1
       /\ last.attr \in LayoutAffecting => Count(last.body, "sync") = 1
       /\ last.attr \in PresentationOnly => Count(last.body, "emit") = 1

\* The watcher of colorRanges ran and called sync().
C4_Witness ==
  /\ last.handler = "watch" /\ last.attr = "colorRanges"
  /\ Count(last.body, "sync") = 1 /\ Count(last.body, "emit") = 0

\* C5: a change of a color prop (color, outlineColor, strokeColor) to a value
\* the validator rejects leaves the Text's field as it was.
C5_RejectedColorKeepsField ==
  [][\A i \in nodes : \A a \in ColorAttrs :
       (Changed(i, a) /\ ~nullableValidator("validateColor", props'[i][a]))
         => Field(i, a)' = Field(i, a)]_vars

\* C6: a change of clipRect to a value validateFloatArray rejects leaves the
\* Text as it was: clipRect keeps its value and nothing else is mutated.
C6_RejectedClipRectKeepsText ==
  [][\A i \in nodes :
       (Changed(i, "clipRect")
          /\ ~nullableValidator("validateFloatArray", props'[i].clipRect))
         => texts'[i] = texts[i]]_vars

\* C7: a component has constructed no Text before it is created and exactly
\* one from then on, which is the one `inst` holds, whatever props change.
C7_OneTextPerComponent ==
  \A i \in nodes :
    /\ Len(texts[i]) = (IF Created(i) THEN 1 ELSE 0)
    /\ instRef[i] = Len(texts[i])

\* A prop of the live component has changed; its Text is still the first.
C7_Witness ==
  /\ phase[1] = "Live" /\ last.handler = "watch" /\ changes >= 1
  /\ Len(texts[1]) = 1 /\ instRef[1] = 1

\* C8: dispose() has been called once if the component is destroyed and not
\* at all before, and no handler has thrown.
C8_DisposedOnceOnTeardown ==
  \A i \in nodes :
    /\ DisposeCalls(i) = (IF phase[i] = "Destroyed" THEN 1 ELSE 0)
    /\ ~threw[i]

\* Created and destroyed at once: no prop changed, the sync of the creation
\* still in flight, one dispose().
C8_Witness ==
  /\ last.handler = "destroyed" /\ phase[1] = "Destroyed"
  /\ changes = 0 /\ Inflight(1) = 1 /\ emits[1] = 0
  /\ DisposeCalls(1) = 1

\* The props that may be null.
Nullable == {"font", "color", "colorRanges", "clipRect", "sdfGlyphSize"}

\* C9: while a nullable prop is null, the field of the Text is null, from
\* the creation on and after a change to null; nothing has thrown.
C9_NullStaysNull ==
  \A i \in nodes :
    Created(i) =>
      /\ \A a \in Nullable : props[i][a] = Null => Field(i, a) = Null
      /\ ~threw[i]

\* clipRect was changed to null and the field is null.
C9_Witness ==
  /\ last.handler = "watch" /\ last.attr = "clipRect"
  /\ props[1].clipRect = Null /\ Field(1, "clipRect") = Null

\* C10: the handler that runs at creation assigns every prop's coerced value
\* before it calls sync(), calls sync() once and emits nothing; right after
\* it the fields hold the props, one sync is in flight and nothing was emitted.
C10_CreationWritesAllThenSyncs ==
  last.handler = "inst" =>
    LET i == last.node
        b == last.body
    IN  /\ \A a \in Attrs :
             \E j \in 1..Len(b) :
               /\ b[j] = Set(a, Coerced(a, props[i][a]))
               /\ \A k \in 1..j : b[k].op # "sync"
        /\ Count(b, "sync") = 1 /\ Count(b, "emit") = 0
        /\ \A a \in Attrs : Field(i, a) = Coerced(a, props[i][a])
        /\ SyncCalls(i) = 1 /\ Inflight(i) = 1 /\ emits[i] = 0

\* A component created with every prop bound.
C10_Witness ==
  /\ last.handler = "inst" /\ props[1] = OtherValues
  /\ Inflight(1) = 1

\* C11: while a requested sync is in flight an emit follows, the library
\* delivering its notification in the end; and a step in which the library
\* delivers a notification emits exactly once.
C11_ResyncLeadsToEmit ==
  /\ \A i \in Components : \A e \in 0..(MaxChanges + 1) :
       (i \in nodes /\ Inflight(i) > 0 /\ emits[i] = e)
         ~> (i \in nodes /\ emits[i] > e)
  /\ [][\A i \in nodes :
          Inflight(i)' < Inflight(i) => emits'[i] = emits[i] + 1]_vars

\* The sync of the creation has completed and its emit was made.
C11_Witness ==
  /\ last.handler = "synccomplete" /\ changes = 0
  /\ SyncCalls(1) = 1 /\ Inflight(1) = 0 /\ emits[1] = 1

\* C12, as stated: with layout-affecting changes made while syncs are in
\* flight, every change requests one sync and cancels none, and a sync that
\* completes while a more recent one is still in flight emits nothing.
C12_SupersededSyncsStaySilent ==
  [][\A i \in nodes :
       /\ (Inflight(i) > 0 /\ \E a \in LayoutAffecting : Changed(i, a))
            => /\ SyncCalls(i)' = SyncCalls(i) + 1
               /\ Inflight(i)' = Inflight(i) + 1
       /\ (Inflight(i)' < Inflight(i) /\ Inflight(i)' > 0)
            => emits'[i] = emits[i]]_vars

\* C12, amended: every change requests one sync and cancels none, and every
\* notification the library delivers is emitted, that of a superseded sync
\* too; the emits never outnumber the syncs requested and the other changes.
C12_EveryNotificationEmits ==
  [][\A i \in nodes :
       /\ (Inflight(i) > 0 /\ \E a \in LayoutAffecting : Changed(i, a))
            => /\ SyncCalls(i)' = SyncCalls(i) + 1
               /\ Inflight(i)' = Inflight(i) + 1
       /\ (Inflight(i)' < Inflight(i) /\ Inflight(i)' > 0)
            => emits'[i] = emits[i] + 1
       /\ emits'[i] + Inflight(i)' <= SyncCalls(i)' + changes']_vars

\* Text and font were changed while the sync of the creation was in flight;
\* one of the three syncs has completed, two are in flight, one emit.
C12_Witness ==
  /\ props[1] = [PropDefaults EXCEPT !.text = Str(<<"h", "i">>),
                                     !.font = Str(<<"a", ".", "t", "t", "f">>)]
  /\ last.handler = "synccomplete"
  /\ SyncCalls(1) = 3 /\ Inflight(1) = 2 /\ emits[1] = 1

\* The lifecycle state of component i, as the specification names the states.
Lifecycle(i) ==
  CASE phase[i] = "Uninitialized" -> "Uninitialized"
    [] phase[i] = "Destroyed" -> "Disposed"
    [] phase[i] = "Live" /\ Inflight(i) > 0 -> "Constructed"
    [] phase[i] = "Live" /\ Inflight(i) = 0 -> "Synced"

\* The component mutates a field of its Text, calls sync() or calls dispose().
ComponentActs(i) ==
  \/ \E a \in Attrs : Field(i, a)' # Field(i, a)
  \/ SyncCalls(i)' # SyncCalls(i)
  \/ DisposeCalls(i)' # DisposeCalls(i)
  \/ Len(texts'[i]) # Len(texts[i])

\* What the lifecycle promises of a step from state s to state t.
LifecycleStep(i, allowed) ==
  LET s == Lifecycle(i)
      t == Lifecycle(i)'
  IN  /\ s # t => <<s, t>> \in allowed
      /\ (s # "Synced" /\ t = "Synced") => Inflight(i)' < Inflight(i)
      /\ (s = "Synced" /\ t = "Constructed") =>
           /\ texts'[i][1] # texts[i][1] /\ Len(texts'[i]) = 1
           /\ instRef'[i] = instRef[i]
           /\ SyncCalls(i)' = SyncCalls(i) + 1
      /\ s = "Disposed" => (t = "Disposed" /\ ~ComponentActs(i))

\* C13, as stated: the lifecycle moves only from Uninitialized to
\* Constructed, from Constructed to Synced, from Synced back to Constructed
\* and from Synced to Disposed; Synced is entered only by a completion, the
\* return to Constructed constructs nothing, and Disposed is terminal.
C13_LifecycleChainOnly ==
  [][\A i \in nodes :
       LifecycleStep(i, { <<"Uninitialized", "Constructed">>,
                          <<"Constructed", "Synced">>,
                          <<"Synced", "Constructed">>,
                          <<"Synced", "Disposed">> })]_vars

\* C13, amended: as stated, and the component may also be disposed while a
\* sync is still in flight (from Constructed to Disposed).
C13_LifecycleWithEarlyDispose ==
  [][\A i \in nodes :
       LifecycleStep(i, { <<"Uninitialized", "Constructed">>,
                          <<"Constructed", "Synced">>,
                          <<"Synced", "Constructed">>,
                          <<"Synced", "Disposed">>,
                          <<"Constructed", "Disposed">> })]_vars

\* Created, the text changed, both syncs completed each with its emit, and
\* the component destroyed from Synced: it is Disposed.
C13_Witness ==
  /\ last.handler = "destroyed" /\ Lifecycle(1) = "Disposed"
  /\ changes = 1 /\ props[1] = [PropDefaults EXCEPT !.text = Str(<<"h", "i">>)]
  /\ SyncCalls(1) = 2 /\ Inflight(1) = 0 /\ emits[1] = 2 /\ DisposeCalls(1) = 1

\* C14: with two components mounted, a step of one component (a change of
\* one of its props, a completion of one of its syncs, its creation or its
\* teardown) leaves the other as it is: the other's props, state, Text
\* (fields, sync() and dispose() calls, syncs in flight) and emits.
C14_ComponentsIsolated ==
  [][\A j \in nodes :
       j # last'.node =>
         /\ texts'[j] = texts[j] /\ instRef'[j] = instRef[j]
         /\ emits'[j] = emits[j] /\ threw'[j] = threw[j]
         /\ props'[j] = props[j] /\ phase'[j] = phase[j]]_vars

\* Component 1 had its text changed, synced twice and was destroyed, while
\* component 2, created before all that, still awaits its first sync with
\* the default fields.
C14_Witness ==
  /\ nodes = {1, 2}
  /\ phase[1] = "Destroyed" /\ props[1].text = Str(<<"h", "i">>)
  /\ emits[1] = 2 /\ DisposeCalls(1) = 1
  /\ phase[2] = "Live" /\ texts[2] = <<[addEventListener(new_Text)
                                         EXCEPT !.syncCalls = 1, !.inflight = 1]>>
  /\ emits[2] = 0 /\ props[2] = PropDefaults

\* The positions in a handler's body of the statements with operation op.
Positions(body, op) == {j \in 1..Len(body) : body[j].op = op}

\* C15: in every watcher the assignment of the field comes before the
\* signalling statement, and it assigns the coerced form of the prop's new
\* value: when sync() or emit() is called the field already holds it.
C15_WriteBeforeSignal ==
  last.handler = "watch" =>
    /\ Positions(last.body, "set") # {}
    /\ \A j \in Positions(last.body, "set") :
         /\ last.body[j].attr = last.attr
         /\ last.body[j].val = Coerced(last.attr, props[last.node][last.attr])
         /\ \A k \in Positions(last.body, "sync") \cup Positions(last.body, "emit") :
              j < k
    /\ Positions(last.body, "sync") \cup Positions(last.body, "emit") # {}

\* The clip rectangle was changed to "0,0,1,1": the watcher assigned
\* [0,0,1,1] first and emitted second.
C15_Witness ==
  /\ last.handler = "watch" /\ last.attr = "clipRect"
  /\ last.body = << Set("clipRect", Arr(<<Num(0), Num(0), Num(1), Num(1)>>)), Emit >>

\* C17: a change of sdfGlyphSize assigns the field, calls sync() exactly
\* once and emits nothing in that step.
C17_SdfGlyphSizeResyncs ==
  [][\A i \in nodes :
       Changed(i, "sdfGlyphSize") =>
         /\ Field(i, "sdfGlyphSize")' = props'[i].sdfGlyphSize
         /\ SyncCalls(i)' = SyncCalls(i) + 1
         /\ Inflight(i)' = Inflight(i) + 1
         /\ emits'[i] = emits[i]]_vars

\* sdfGlyphSize was changed from null to 128 while the sync of the creation
\* was in flight: the field is 128, two syncs requested, no emit.
C17_Witness ==
  /\ last.handler = "watch" /\ last.attr = "sdfGlyphSize"
  /\ props[1] = [PropDefaults EXCEPT !.sdfGlyphSize = Num(128)]
  /\ Field(1, "sdfGlyphSize") = Num(128)
  /\ SyncCalls(1) = 2 /\ Inflight(1) = 2 /\ emits[1] = 0

\* C18: the listener of 'synccomplete' stays registered on the Text for
\* good, and a sync that completes after the component was destroyed and its
\* Text disposed still has the listener emit.
C18_ListenerOutlivesDispose ==
  /\ [](\A i \in nodes : \A r \in 1..Len(texts[i]) : texts[i][r].listeners = 1)
  /\ [][\A i \in nodes :
          (phase[i] = "Destroyed" /\ Inflight(i)' < Inflight(i))
            => /\ emits'[i] = emits[i] + 1
               /\ DisposeCalls(i) = 1 /\ phase'[i] = "Destroyed"]_vars
  /\ [](\A i \in nodes :
          (phase[i] = "Destroyed" /\ Inflight(i) > 0) => ENABLED SyncComplete(i))

\* Destroyed with the sync of the creation in flight; the sync then
\* completed and the listener emitted, after dispose().
C18_Witness ==
  /\ last.handler = "synccomplete" /\ phase[1] = "Destroyed"
  /\ changes = 0 /\ DisposeCalls(1) = 1
  /\ SyncCalls(1) = 1 /\ Inflight(1) = 0 /\ emits[1] = 1

\* C20: a change of one prop assigns the field of that prop alone: every
\* other field of the Text keeps its value, and the watcher's body holds one
\* assignment, to that field.  Only the handler of `inst` assigns them all.
C20_WatcherWritesOneField ==
  /\ [][\A i \in nodes : \A a \in Attrs :
          Changed(i, a) => \A b \in Attrs \ {a} : Field(i, b)' = Field(i, b)]_vars
  /\ [](last.handler = "watch" =>
          /\ Count(last.body, "set") = 1
          /\ \A j \in Positions(last.body, "set") : last.body[j].attr = last.attr)
  /\ [](last.handler = "inst" =>
          {last.body[j].attr : j \in Positions(last.body, "set")} = Attrs)

\* outlineOffsetX was changed to a value outlineOffsetY does not have: the
\* field of outlineOffsetX follows, that of outlineOffsetY keeps its own.
C20_Witness ==
  /\ last.handler = "watch" /\ last.attr = "outlineOffsetX"
  /\ Field(1, "outlineOffsetX") = props[1].outlineOffsetX
  /\ Field(1, "outlineOffsetY") = props[1].outlineOffsetY
  /\ Field(1, "outlineOffsetX") # Field(1, "outlineOffsetY")

\* The string forms THREE.Color recognizes, among the strings of the
\* model: a color name ("red") and "#" with three or six hexadecimal digits.
RecognizedColorString(s) ==
  \/ s = <<"r", "e", "d">>
  \/ /\ Len(s) \in {4, 7} /\ s[1] = "#"
     /\ \A j \in 2..Len(s) : s[j] \in {"0", "d", "e", "f"}

\* The validator of a color prop has been applied to arg.
ColorValidated == arg.prop = "color" /\ out.valid # NotCalled

\* C16, as stated: the validator of a color prop accepts a value exactly
\* when it is null, a number, a color object or a string of a recognized
\* color form; booleans, arrays and all other strings are rejected.
C16_ColorValidatorRecognizes ==
  ColorValidated =>
    (out.valid = Bool(TRUE)) <=>
      \/ arg.value = Null
      \/ arg.value.k = "num"
      \/ arg.value.k = "color"
      \/ arg.value.k = "str" /\ RecognizedColorString(arg.value.s)

\* C16, amended: the validator of a color prop accepts a value exactly when
\* it is null, a number, a color object or a string, every string whatever
\* it holds; booleans and arrays are rejected.
C16_ColorValidatorShapes ==
  ColorValidated =>
    /\ (out.valid = Bool(TRUE)) <=> arg.value.k \in {"null", "num", "color", "str"}
    /\ arg.value.k \in {"bool", "arr"} => out.valid = Bool(FALSE)

\* The validator was applied to the string "fed", no color form, and
\* accepted it.
C16_Witness ==
  /\ ColorValidated /\ arg.value = Str(<<"f", "e", "d">>)
  /\ ~RecognizedColorString(arg.value.s)
  /\ out.valid = Bool(TRUE)

\* The number of elements of a clipRect value: those of the array, the
\* pieces between the commas of the string.
Elements(v) ==
  IF v.k = "arr" THEN Len(v.a)
  ELSE Cardinality({j \in 1..Len(v.s) : v.s[j] = ","}) + 1

\* C19: for every string or array that the validator of clipRect accepts,
\* the parser returns an array of as many elements, none of them NaN; the
\* validator accepts the empty array and rejects the empty string.
C19_ValidatorAndParserAgree ==
  /\ (arg.prop = "clipRect" /\ arg.value # Null
        /\ out.valid = Bool(TRUE) /\ out.parsed # NotCalled)
       => /\ out.parsed.k = "arr"
          /\ Len(out.parsed.a) = Elements(arg.value)
          /\ \A j \in 1..Len(out.parsed.a) :
               out.parsed.a[j].k = "num" /\ ~Number_isNaN(out.parsed.a[j])
  /\ (arg.prop = "clipRect" /\ out.valid # NotCalled) =>
       /\ arg.value = Arr(<<>>) => out.valid = Bool(TRUE)
       /\ arg.value = Str(<<>>) => out.valid = Bool(FALSE)

\* The array ["1", -1.5] was accepted and parsed to the two numbers 1 and -1.5.
C19_Witness ==
  /\ arg = [prop |-> "clipRect", value |-> Arr(<<Str(<<"1">>), Frac(-3, 2)>>)]
  /\ out.valid = Bool(TRUE)
  /\ out.parsed = Arr(<<Num(1), Frac(-3, 2)>>)

====
